---- MODULE Spec2Model ----
(***************************************************************************)
(* Session state machine of the serial monitor CLI (src/serialMonitor.js). *)
(*                                                                         *)
(* The program is single threaded: every action below is one run of the    *)
(* event loop, from the event that starts it (an answered prompt, a port   *)
(* event, a close acknowledgment, a signal) to the point where every       *)
(* async call chain is suspended again on an await of real I/O.            *)
(*                                                                         *)
(* A "chain" is one async call chain of menu functions.  main() starts the *)
(* first one; the port's 'error' and 'close' handlers start a new one each *)
(* time they call showMainMenu() without awaiting it.  Chains never return *)
(* (every menu function ends by awaiting the next menu), so chains are     *)
(* kept as a bag of suspended positions.                                   *)
(*                                                                         *)
(* The serial port library and the file system are the environment: a port *)
(* handle is opening, open, closing, closed or failed, and emits 'open',   *)
(* 'error', 'close' and parsed 'data' events.                              *)
(***************************************************************************)
EXTENDS Integers, Sequences, FiniteSets, Bags, TLC

\* ---- bounds of the model
MaxPorts   == 2   \* SerialPort handles created in one run
MaxErrors  == 1   \* 'error' events emitted by ports in one run
MaxStreams == 2   \* log write streams open at the same time
MaxBuffer  == 2   \* bytes a parser holds back between two reads
MaxInput   == 4   \* bytes of a stream fed to the line framer on its own

NULL    == 0      \* the JavaScript null of serialConnection and logStream
RUNNING == -1     \* exitCode while the process has not exited

Commands   == {<<>>, <<"A">>}      \* operator's command text
Terminator == <<"\r", "\n">>       \* line 213: command + '\r\n'
Delimiter_newline == <<"\n">>
Delimiter  == <<"\r", "\n">>       \* line 134: ReadlineParser({ delimiter: '\r\n' })
Bytes      == {"A", "\r", "\n"}    \* what a device sends
Times      == {"T1", "T2"}         \* readings of new Date().toISOString()

VARIABLES
  serialConnection,  \* line 8: NULL or the index in ports of the handle held
  logStream,         \* line 9: NULL or the id of the write stream bound
  ports,             \* every SerialPort created so far: its status
  streams,           \* ids of the write streams created and not ended
  failing,           \* ids of the write streams whose file will not open
  buffer,            \* per port: the bytes its parser holds back
  chains,            \* bag of suspended async call chains
  nErrors,           \* 'error' events emitted so far
  out,               \* what the last step printed, wrote and logged, in order
  exitCode,          \* RUNNING, or the code passed to process.exit
  framer             \* a line framer on its own: the byte stream fed to it
                     \* (input), how many of its bytes it has read (pos), the
                     \* lines emitted so far and the bytes held back

vars == <<serialConnection, logStream, ports, streams, failing, buffer, chains,
          nErrors, out, exitCode, framer>>

\* A suspended chain: where it waits (pc), the port whose close it awaits,
\* what follows the close ("menu": line 70, "exit": lines 79-80,
\* "sigint": line 258) and the exception context of its innermost frame:
\* "try" (inside the try of lines 85-173) or "top" (anywhere else).  A chain
\* suspended at the disconnected menu is recorded as "top" wherever it is:
\* its prompt raises nothing, and what it does next is to exit or to enter
\* connectToDevice, whose try catches whatever is raised above it.
Chain(pc, ctx) == [pc |-> pc, port |-> 0, then |-> "none", ctx |-> ctx]
ClosingChain(p, then, ctx) == [pc |-> "closing", port |-> p, then |-> then, ctx |-> ctx]

PromptPcs  == {"menuD", "menuC", "selPort", "selBaud", "sendPrompt", "logPrompt"}
ConnectPcs == {"listing", "selPort", "selBaud"}

Waiting    == BagToSet(chains)
Count(pcs) == BagCardinality([c \in {d \in Waiting : d.pc \in pcs} |-> chains[c]])
Without(c) == chains (-) SetToBag({c})
With(b, c) == b (+) SetToBag({c})

\* Outputs of a step: a console message, a prompt put on the terminal, a
\* received line (printed, and logged to stream s unless s is NULL) and data
\* written to a port.
Console(text)  == [kind |-> "console", port |-> 0, stream |-> 0, data |-> <<text>>]
Prompt(pc)     == [kind |-> "prompt", port |-> 0, stream |-> 0, data |-> <<pc>>]
Line(p, msg)   == [kind |-> "line", port |-> p, stream |-> 0, data |-> msg]
Debug(msg)     == [kind |-> "debug", port |-> 0, stream |-> 0, data |-> msg]
Entry(s, data) == [kind |-> "entry", port |-> 0, stream |-> s, data |-> data]
Write(p, data) == [kind |-> "write", port |-> p, stream |-> 0, data |-> data]

InitSession ==
  /\ serialConnection = NULL
  /\ logStream = NULL
  /\ ports = <<>>
  /\ streams = {}
  /\ failing = {}
  /\ buffer = <<>>
  /\ chains = SetToBag({Chain("menuD", "top")})   \* main -> showMainMenu -> line 33
  /\ nErrors = 0
  /\ out = <<Console("Serial Monitor CLI"), Prompt("menuD")>>     \* lines 12-14, 33
  /\ exitCode = RUNNING

Unfed(input) == [input |-> input, pos |-> 0, emitted |-> <<>>, held |-> <<>>]

Init ==
  /\ InitSession
  /\ framer = Unfed(<<>>)

\* Nothing runs once process.exit has been called.
Running == exitCode = RUNNING

\* ---- menu functions: where the calling chain is suspended next, what is
\* printed on the way, and what becomes of serialConnection and of the
\* process.  conn is the value of serialConnection when the function is
\* entered.

\* lines 174-178 (reached by an exception in the try of lines 85-173), and
\* lines 18-21 when the exception is raised outside every such try.
catchConnect_uncaught(conn, ctx) ==
  [chain |-> Chain("menuD", ctx), conn |-> conn, exit |-> 1,
   out |-> <<Console("Error")>>]
catchConnect(conn, ctx) ==
  IF ctx = "try"
  THEN [chain |-> Chain("menuD", "top"), conn |-> NULL, exit |-> RUNNING,
        out |-> <<Console("Connection error"), Prompt("menuD")>>]
  ELSE [chain |-> Chain("menuD", ctx), conn |-> conn, exit |-> 1,
        out |-> <<Console("Error")>>]

\* lines 53-66: the prompt's message reads serialConnection.path, a TypeError
\* when serialConnection is null.
showConnectedMenu(conn, ctx) ==
  IF conn # NULL
  THEN [chain |-> Chain("menuC", ctx), conn |-> conn, exit |-> RUNNING,
        out |-> <<Prompt("menuC")>>]
  ELSE catchConnect(conn, ctx)

\* lines 32-43
showDisconnectedMenu(conn, ctx) ==
  [chain |-> Chain("menuD", "top"), conn |-> conn, exit |-> RUNNING,
   out |-> <<Prompt("menuD")>>]

\* lines 24-30
showMainMenu(conn, ctx) ==
  IF conn # NULL THEN showConnectedMenu(conn, ctx)
                 ELSE showDisconnectedMenu(conn, ctx)

\* The calling chain goes on as the outcome o says, after printing pre; no
\* chain is resumed once the process has exited.
Continue(rest, pre, o) ==
  /\ serialConnection' = o.conn
  /\ exitCode' = o.exit
  /\ out' = pre \o o.out
  /\ chains' = IF o.exit = RUNNING THEN With(rest, o.chain) ELSE EmptyBag

\* The chain goes on to the prompt pc, after printing pre.
Ask(rest, pre, pc, ctx) ==
  /\ chains' = With(rest, Chain(pc, ctx))
  /\ out' = pre \o <<Prompt(pc)>>
  /\ UNCHANGED <<serialConnection, exitCode>>

\* process.exit(code), after printing pre: every suspended chain goes with
\* the process.
Exit(rest, pre, conn, code) ==
  /\ serialConnection' = conn
  /\ exitCode' = code
  /\ out' = pre
  /\ chains' = EmptyBag

\* logStream.end(); logStream = null  (lines 150-153, 187-191, 223-224)
EndLog ==
  IF logStream # NULL
  THEN /\ streams' = streams \ {logStream}
       /\ logStream' = NULL
  ELSE UNCHANGED <<streams, logStream>>

\* ---- connect: lines 45-46 and 84-178

\* Operator answers the disconnected menu with 'connect': connectToDevice
\* starts and awaits SerialPort.list().
ChooseConnect(c) ==
  /\ Running
  /\ UNCHANGED <<failing, buffer, framer>>
  /\ c.pc = "menuD"
  /\ Len(ports) < MaxPorts
  /\ chains' = With(Without(c), Chain("listing", "try"))
  /\ out' = <<>>
  /\ UNCHANGED <<serialConnection, logStream, ports, streams, nErrors, exitCode>>

\* SerialPort.list() settles (lines 87-93): no port, some ports, or rejection.
ListPorts(c, outcome) ==
  /\ Running
  /\ UNCHANGED <<failing, buffer, framer>>
  /\ c.pc = "listing"
  /\ CASE outcome = "empty"  ->
            Continue(Without(c), <<Console("No serial ports detected")>>,
                     showMainMenu(serialConnection, c.ctx))
       [] outcome = "some"   -> Ask(Without(c), <<>>, "selPort", c.ctx)
       [] outcome = "reject" ->
            Continue(Without(c), <<>>, catchConnect(serialConnection, c.ctx))
  /\ UNCHANGED <<logStream, ports, streams, nErrors>>

\* Operator selects a port (lines 102-109); the baud rate prompt follows.
SelectPort(c) ==
  /\ Running
  /\ UNCHANGED <<failing, buffer, framer>>
  /\ c.pc = "selPort"
  /\ Ask(Without(c), <<>>, "selBaud", c.ctx)
  /\ UNCHANGED <<logStream, ports, streams, nErrors>>

\* Operator selects a baud rate (lines 112-172): the SerialPort is created
\* and bound to serialConnection, the handlers are attached and the menu is
\* shown; or the constructor throws and line 174 catches.
SelectBaud(c, created) ==
  /\ Running
  /\ UNCHANGED <<failing, framer>>
  /\ c.pc = "selBaud"
  /\ Len(ports) < MaxPorts
  /\ IF created
     THEN /\ ports' = Append(ports, "opening")
          /\ buffer' = Append(buffer, <<>>)
          /\ Continue(Without(c), <<Console("Connecting")>>,
                      showMainMenu(Len(ports) + 1, c.ctx))
     ELSE /\ UNCHANGED <<ports, buffer>>
          /\ Continue(Without(c), <<Console("Connecting")>>,
                      catchConnect(serialConnection, c.ctx))
  /\ UNCHANGED <<logStream, streams, nErrors>>

\* Operator answers the disconnected menu with 'exit' (lines 47-49).
ChooseExitD(c) ==
  /\ Running
  /\ UNCHANGED <<failing, buffer, framer>>
  /\ c.pc = "menuD"
  /\ Exit(Without(c), <<Console("Goodbye")>>, serialConnection, 0)
  /\ UNCHANGED <<logStream, ports, streams, nErrors>>

\* ---- disconnect: lines 181-196

\* What follows an awaited disconnectFromDevice, which printed pre: the menu
\* (line 70) or process.exit(0) (lines 79-80 and 258).  serialConnection is
\* conn by then.
AfterDisconnect(rest, pre, then, conn, ctx) ==
  CASE then = "menu"   -> Continue(rest, pre, showMainMenu(conn, ctx))
    [] then = "exit"   -> Exit(rest, pre \o <<Console("Goodbye")>>, conn, 0)
    [] then = "sigint" -> Exit(rest, pre, conn, 0)

\* The callback given to close (lines 184-193) prints this.
Disconnected ==
  <<Console("Disconnected from serial device")>>
    \o (IF logStream # NULL THEN <<Console("Logging stopped")>> ELSE <<>>)

\* disconnectFromDevice without the test of line 182: the callback's body
\* runs even when there is no connection.
disconnectFromDevice_unguarded(rest, pre, then, ctx) ==
  IF serialConnection # NULL /\ ports[serialConnection] = "open"
  THEN /\ ports' = [ports EXCEPT ![serialConnection] = "closing"]
       /\ chains' = With(rest, ClosingChain(serialConnection, then, ctx))
       /\ out' = pre
       /\ UNCHANGED <<serialConnection, logStream, streams, exitCode>>
  ELSE /\ EndLog
       /\ UNCHANGED ports
       /\ AfterDisconnect(rest, pre \o Disconnected, then, NULL, ctx)

\* disconnectFromDevice, called after printing pre by a chain whose other
\* chains are rest.  Line 182: nothing to do without a connection.
\* Otherwise close(cb) is issued: an open port starts closing and the chain
\* awaits the callback; a port that is not open (still opening, or already
\* closing) calls cb back with an error on the next tick, and cb (lines
\* 185-192) ignores the error.
disconnectFromDevice(rest, pre, then, ctx) ==
  IF serialConnection = NULL
  THEN /\ UNCHANGED <<logStream, streams, ports>>
       /\ AfterDisconnect(rest, pre, then, serialConnection, ctx)
  ELSE IF ports[serialConnection] = "open"
  THEN /\ ports' = [ports EXCEPT ![serialConnection] = "closing"]
       /\ chains' = With(rest, ClosingChain(serialConnection, then, ctx))
       /\ out' = pre
       /\ UNCHANGED <<serialConnection, logStream, streams, exitCode>>
  ELSE /\ EndLog
       /\ UNCHANGED ports
       /\ AfterDisconnect(rest, pre \o Disconnected, then, NULL, ctx)

\* Operator answers the connected menu with 'disconnect' (lines 68-70).
ChooseDisconnect(c) ==
  /\ Running
  /\ UNCHANGED <<failing, buffer, framer>>
  /\ c.pc = "menuC"
  /\ disconnectFromDevice(Without(c), <<>>, "menu", c.ctx)
  /\ UNCHANGED nErrors

\* Operator answers the connected menu with 'exit' (lines 77-80).
ChooseExitC(c) ==
  /\ Running
  /\ UNCHANGED <<failing, buffer, framer>>
  /\ c.pc = "menuC"
  /\ disconnectFromDevice(Without(c), <<>>, "exit", c.ctx)
  /\ UNCHANGED nErrors

\* The process receives SIGINT (lines 255-259).
Sigint ==
  /\ Running
  /\ UNCHANGED <<failing, buffer, framer>>
  /\ disconnectFromDevice(chains, <<Console("Gracefully shutting down")>>, "sigint", "top")
  /\ UNCHANGED nErrors

\* The port acknowledges close(cb) (lines 147-155, then 184-193, then the
\* chain that awaited): the port emits 'close', whose handler clears the
\* session, ends the log and starts a menu of its own, and then cb runs and
\* resolves.
CloseDone(c) ==
  /\ Running
  /\ UNCHANGED <<failing, buffer, framer>>
  /\ c.pc = "closing"
  /\ ports[c.port] = "closing"
  /\ ports' = [ports EXCEPT ![c.port] = "closed"]
  /\ EndLog
  /\ AfterDisconnect(With(Without(c), showMainMenu(NULL, "top").chain),
                     <<Console("Serial connection closed")>>
                       \o showMainMenu(NULL, "top").out
                       \o <<Console("Disconnected from serial device")>>,
                     c.then, NULL, c.ctx)
  /\ UNCHANGED nErrors

\* ---- send: lines 71-73 and 198-218

\* Operator answers the connected menu with 'send': "Not connected" and back
\* to the connected menu (lines 199-202, 73), or the command prompt.
ChooseSend(c) ==
  /\ Running
  /\ UNCHANGED <<failing, buffer, framer>>
  /\ c.pc = "menuC"
  /\ IF serialConnection = NULL
     THEN Continue(Without(c), <<Console("Not connected")>>,
                   showConnectedMenu(serialConnection, c.ctx))
     ELSE Ask(Without(c), <<>>, "sendPrompt", c.ctx)
  /\ UNCHANGED <<logStream, ports, streams, nErrors>>

\* sendCommand with a catch that drops the connection when the write fails.
AnswerSend_dropsConnection(c, command, wrote) ==
  /\ Running
  /\ UNCHANGED <<failing, buffer, framer>>
  /\ c.pc = "sendPrompt"
  /\ Continue(Without(c),
              IF serialConnection # NULL /\ wrote
              THEN <<Write(serialConnection, command \o Terminator),
                     Console("Command sent")>>
              ELSE <<Console("Failed to send command")>>,
              showConnectedMenu(IF wrote THEN serialConnection ELSE NULL, c.ctx))
  /\ UNCHANGED <<logStream, ports, streams, nErrors>>

\* Operator enters the command (lines 204-217, 73).  The write reaches the
\* port held by serialConnection; it throws when serialConnection is null
\* or when the port refuses it (wrote = FALSE), and line 215 catches.
AnswerSend(c, command, wrote) ==
  /\ Running
  /\ UNCHANGED <<failing, buffer, framer>>
  /\ c.pc = "sendPrompt"
  /\ Continue(Without(c),
              IF serialConnection # NULL /\ wrote
              THEN <<Write(serialConnection, command \o Terminator),
                     Console("Command sent")>>
              ELSE <<Console("Failed to send command")>>,
              showConnectedMenu(serialConnection, c.ctx))
  /\ UNCHANGED <<logStream, ports, streams, nErrors>>

\* ---- logging: lines 74-76 and 220-252

\* Operator answers the connected menu with 'log': a bound stream is ended
\* and unbound (lines 221-225), otherwise the file name prompt is shown.
ChooseLog(c) ==
  /\ Running
  /\ UNCHANGED <<failing, buffer, framer>>
  /\ c.pc = "menuC"
  /\ IF logStream # NULL
     THEN /\ EndLog
          /\ Continue(Without(c), <<Console("Logging stopped")>>,
                      showConnectedMenu(serialConnection, c.ctx))
     ELSE /\ Cardinality(streams \cup failing) + Count({"logPrompt"}) < MaxStreams
          /\ Ask(Without(c), <<>>, "logPrompt", c.ctx)
          /\ UNCHANGED <<logStream, streams>>
  /\ UNCHANGED <<ports, nErrors>>

\* The id of the next write stream.
NewStream ==
  CHOOSE s \in 1..MaxStreams :
    /\ s \notin streams \cup failing
    /\ \A t \in 1..(s - 1) : t \in streams \cup failing

\* Operator enters the file name (lines 237-250, 76): the stream is created
\* and bound, or creating the directory throws and line 248 catches.
\* fs.createWriteStream returns the stream before the file is opened: when
\* the file will not open (opens is FALSE) the stream is bound all the same
\* and reports the failure later, through its own 'error' event.
AnswerLog(c, created, opens) ==
  /\ Running
  /\ UNCHANGED <<buffer, framer>>
  /\ c.pc = "logPrompt"
  /\ IF created
     THEN /\ streams' = streams \cup {NewStream}
          /\ logStream' = NewStream
          /\ failing' = IF opens THEN failing ELSE failing \cup {NewStream}
     ELSE /\ opens
          /\ UNCHANGED <<streams, logStream, failing>>
  /\ Continue(Without(c),
              IF created THEN <<Console("Logging to")>>
                         ELSE <<Console("Failed to create log file")>>,
              showConnectedMenu(serialConnection, c.ctx))
  /\ UNCHANGED <<ports, nErrors>>

\* The file of write stream s does not open: the stream emits 'error', and
\* no listener was ever attached to it (lines 246-247), so the event is
\* thrown as an uncaught exception and the process dies with code 1.
StreamError(s) ==
  /\ Running
  /\ UNCHANGED <<buffer, framer>>
  /\ s \in failing
  /\ failing' = failing \ {s}
  /\ exitCode' = 1
  /\ out' = <<Console("Uncaught")>>
  /\ chains' = EmptyBag
  /\ UNCHANGED <<serialConnection, logStream, ports, streams, nErrors>>

\* ---- the line framer: line 134, '@serialport/parser-readline'

\* Where the delimiter first starts in data, 0 when it does not occur.
Find(data) ==
  LET n == Len(Delimiter)
      at == {i \in 1..(Len(data) - n + 1) : SubSeq(data, i, i + n - 1) = Delimiter}
  IN IF at = {} THEN 0 ELSE CHOOSE i \in at : \A j \in at : i <= j

\* data cut at every delimiter: the lines before each, and what follows the
\* last one.
RECURSIVE Split(_)
Split(data) ==
  LET i == Find(data)
  IN IF i = 0
     THEN [lines |-> <<>>, buffer |-> data]
     ELSE LET r == Split(SubSeq(data, i + Len(Delimiter), Len(data)))
          IN [lines |-> <<SubSeq(data, 1, i - 1)>> \o r.lines, buffer |-> r.buffer]

\* The parser reads a chunk: what it held back is put in front of it.
Feed(buf, chunk) == Split(buf \o chunk)

\* ---- port events: lines 137-170

IsPort(p) == p \in 1..Len(ports)

\* 'open' (lines 137-139): informational.
PortOpen(p) ==
  /\ Running
  /\ UNCHANGED <<failing, buffer, framer>>
  /\ IsPort(p) /\ ports[p] = "opening"
  /\ ports' = [ports EXCEPT ![p] = "open"]
  /\ out' = <<Console("Connected to")>>
  /\ UNCHANGED <<serialConnection, logStream, streams, chains, nErrors, exitCode>>

\* 'error' handler (lines 141-145): clears serialConnection and starts a menu.
onError ==
  /\ Continue(chains, <<Console("Serial port error")>>, showMainMenu(NULL, "top"))
  /\ UNCHANGED <<logStream, streams>>

\* 'close' handler (lines 147-155): clears serialConnection, ends the log
\* and starts a menu.
onClose ==
  /\ EndLog
  /\ Continue(chains, <<Console("Serial connection closed")>>, showMainMenu(NULL, "top"))

\* The open fails: the port reports it through 'error' and never opens.
PortOpenFail(p) ==
  /\ Running
  /\ UNCHANGED <<failing, buffer, framer>>
  /\ IsPort(p) /\ ports[p] = "opening"
  /\ nErrors < MaxErrors
  /\ ports' = [ports EXCEPT ![p] = "failed"]
  /\ nErrors' = nErrors + 1
  /\ onError

\* An open port reports a runtime error through 'error'; the handler does
\* not close the port.
PortError(p) ==
  /\ Running
  /\ UNCHANGED <<failing, buffer, framer>>
  /\ IsPort(p) /\ ports[p] = "open"
  /\ nErrors < MaxErrors
  /\ nErrors' = nErrors + 1
  /\ onError
  /\ UNCHANGED ports

\* The port closes without the program asking (the device went away).
PortClose(p) ==
  /\ Running
  /\ UNCHANGED <<failing, buffer, framer>>
  /\ IsPort(p) /\ ports[p] = "open"
  /\ ports' = [ports EXCEPT ![p] = "closed"]
  /\ onClose
  /\ UNCHANGED nErrors

\* parser 'data' handler (lines 158-170): the line is printed under a
\* timestamp, written with it and a newline to the bound log stream if
\* there is one, and printed once more by console.debug.
onData_restamped(p, data, timestamp) ==
  <<Line(p, <<"[", timestamp, "] ">> \o data)>>
  \o (IF logStream # NULL
      THEN <<Entry(logStream, <<"[", CHOOSE t \in Times : t # timestamp, "] ">>
                                \o data \o <<"\n">>)>>
      ELSE <<>>)
  \o <<Debug(<<"\n", " ", "[", timestamp, "] ">> \o data)>>
onData(p, data, timestamp) ==
  LET streamMsg == <<"[", timestamp, "] ">> \o data
  IN <<Line(p, streamMsg)>>
     \o (IF logStream # NULL
         THEN <<Entry(logStream, streamMsg \o <<"\n">>)>> ELSE <<>>)
     \o <<Debug(<<"\n", " ">> \o streamMsg)>>

\* What onData puts out for each of lines, in their order; stamps[i] is the
\* clock's reading when line i is handled.
RECURSIVE Received(_, _, _)
Received(p, lines, stamps) ==
  IF lines = <<>> THEN <<>>
  ELSE Received(p, SubSeq(lines, 1, Len(lines) - 1), stamps)
       \o onData(p, lines[Len(lines)], stamps[Len(lines)])

\* Port p reads a chunk of bytes: the parser emits the lines the chunk
\* completes, each to the 'data' handler, and holds back the rest.
PortData(p, chunk) ==
  /\ Running
  /\ UNCHANGED <<failing, framer>>
  /\ IsPort(p) /\ ports[p] = "open"
  /\ LET r == Feed(buffer[p], chunk)
     IN /\ Len(r.buffer) <= MaxBuffer
        /\ buffer' = [buffer EXCEPT ![p] = r.buffer]
        /\ \E stamps \in [1..Len(r.lines) -> Times] :
             out' = Received(p, r.lines, stamps)
  /\ UNCHANGED <<serialConnection, logStream, ports, streams, chains, nErrors,
                 exitCode>>

\* ---- the line framer on its own: the stream input is read in chunks of
\* any length.
Inputs == UNION {[1..n -> Bytes] : n \in 0..MaxInput}

InitFramer ==
  /\ InitSession
  /\ \E input \in Inputs : framer = Unfed(input)

\* The framer reads the next n bytes of its input.
FeedChunk(n) ==
  /\ framer.pos + n <= Len(framer.input)
  /\ LET r == Feed(framer.held,
                   SubSeq(framer.input, framer.pos + 1, framer.pos + n))
     IN framer' = [input |-> framer.input, pos |-> framer.pos + n,
                   emitted |-> framer.emitted \o r.lines, held |-> r.buffer]
  /\ UNCHANGED <<serialConnection, logStream, ports, streams, failing, buffer,
                 chains, nErrors, out, exitCode>>

\* ---- the program

LineChunks == {<<"A", "\r", "\n">>}
PartChunks == {<<"A">>, <<"\r", "\n">>}

Session ==
  \/ \E c \in Waiting : ChooseConnect(c)
  \/ \E c \in Waiting, outcome \in {"empty", "some", "reject"} : ListPorts(c, outcome)
  \/ \E c \in Waiting : SelectPort(c)
  \/ \E c \in Waiting, created \in BOOLEAN : SelectBaud(c, created)
  \/ \E c \in Waiting : ChooseExitD(c)
  \/ \E c \in Waiting : ChooseDisconnect(c)
  \/ \E c \in Waiting : ChooseExitC(c)
  \/ \E c \in Waiting : ChooseSend(c)
  \/ \E c \in Waiting, command \in Commands, wrote \in BOOLEAN :
       AnswerSend(c, command, wrote)
  \/ \E c \in Waiting : ChooseLog(c)
  \/ \E c \in Waiting, created \in BOOLEAN : AnswerLog(c, created, TRUE)
  \/ \E c \in Waiting : CloseDone(c)
  \/ \E p \in 1..MaxPorts : PortOpen(p)
  \/ \E p \in 1..MaxPorts : PortOpenFail(p)
  \/ \E p \in 1..MaxPorts : PortError(p)
  \/ \E p \in 1..MaxPorts : PortClose(p)
  \/ Sigint

\* The operator's answers, the signal and every event but the arrival of
\* bytes.
Next ==
  \/ Session
  \/ \E p \in 1..MaxPorts, chunk \in LineChunks : PortData(p, chunk)

\* The device sends whole lines, each read in one chunk, and every log file
\* opens.
Spec == Init /\ [][Next]_vars

\* A log file may fail to open.
NextFiles ==
  \/ Next
  \/ \E c \in Waiting : AnswerLog(c, TRUE, FALSE)
  \/ \E s \in 1..MaxStreams : StreamError(s)

SpecFiles == Init /\ [][NextFiles]_vars

\* A line's text and its terminator are read in chunks of their own.
NextData ==
  \/ Session
  \/ \E p \in 1..MaxPorts, chunk \in PartChunks : PortData(p, chunk)

SpecData == Init /\ [][NextData]_vars

NextFramer == \E n \in 1..MaxInput : FeedChunk(n)

SpecFramer == InitFramer /\ [][NextFramer]_vars

TypeOK ==
  /\ serialConnection \in 0..Len(ports)
  /\ logStream \in {NULL} \cup streams
  /\ Len(ports) <= MaxPorts
  /\ Cardinality(streams \cup failing) <= MaxStreams
  /\ Len(buffer) = Len(ports)
  /\ \A p \in 1..Len(buffer) : Len(buffer[p]) <= MaxBuffer
  /\ exitCode \in {RUNNING, 0, 1}

\* ---- properties

Live(p)   == ports[p] \in {"opening", "open", "closing"}
LivePorts == {p \in 1..Len(ports) : Live(p)}
Printed(text)  == \E i \in 1..Len(out) : out[i] = Console(text)
Prompted(pc)   == \E i \in 1..Len(out) : out[i] = Prompt(pc)

\* The steps that close the Connection: an explicit disconnect (from the
\* menu, on exit, on SIGINT, and its acknowledgment), the port's 'close'
\* event and the port's 'error' event.
ExplicitDisconnectStep ==
  \/ \E c \in Waiting : ChooseDisconnect(c) \/ ChooseExitC(c) \/ CloseDone(c)
  \/ Sigint
CloseEventStep == \E p \in 1..MaxPorts : PortClose(p)
ErrorEventStep == \E p \in 1..MaxPorts : PortOpenFail(p) \/ PortError(p)
LogClosedWithConnection ==
  (serialConnection # NULL /\ serialConnection' = NULL) => logStream' = NULL

\* C1: on every close path (explicit disconnect, the port's 'close' event,
\* the port's 'error' event) a step that takes the session from Connected to
\* Disconnected leaves no Log Destination bound.
C1_EveryClosePathClosesLog ==
  [][(ExplicitDisconnectStep \/ CloseEventStep \/ ErrorEventStep)
       => LogClosedWithConnection]_vars

\* C2: at most one serial port handle is created and not closed.
C2_AtMostOneConnection == Cardinality(LivePorts) <= 1

\* C3: at most one log write stream is opened and not ended.
C3_AtMostOneLogDestination == Cardinality(streams) <= 1

\* C4: the parser 'data' handler prints or logs a line only while the
\* session is Connected.
C4_LinesOnlyWhileConnected ==
  \A i \in 1..Len(out) : out[i].kind = "line" => serialConnection # NULL

\* C5: a port whose open fails was never held by serialConnection when the
\* failure is reported, the session is Disconnected after the report, and no
\* other port is created by that step.
C5_FailedConnectStaysDisconnected ==
  [][\A p \in 1..Len(ports) :
       (ports[p] = "opening" /\ ports'[p] = "failed")
         => /\ serialConnection # p
            /\ serialConnection' = NULL
            /\ Len(ports') = Len(ports)]_vars

\* C6: connectToDevice (from port enumeration to the creation of the
\* SerialPort) runs only while Disconnected, and one invocation at a time.
C6_OneConnectFromDisconnected ==
  /\ Count(ConnectPcs) <= 1
  /\ Count(ConnectPcs) = 1 => serialConnection = NULL

\* C7: at most one inquirer prompt is pending.
C7_OnePromptPending == Count(PromptPcs) <= 1

\* C8: a Log Destination is bound only while a Connection exists.
C8_LogOpenedOnlyWhileConnected ==
  [][(logStream' # NULL /\ logStream' # logStream) => serialConnection # NULL]_vars

\* C9: disconnectFromDevice called while Disconnected changes neither
\* serialConnection nor logStream, closes no port and stream, prints nothing
\* of a disconnection, and completes without awaiting a close.
DisconnectCall ==
  \/ \E c \in Waiting : ChooseDisconnect(c) \/ ChooseExitC(c)
  \/ Sigint
C9_DisconnectWhenDisconnectedIsNoop ==
  [][(serialConnection = NULL /\ DisconnectCall)
       => /\ UNCHANGED <<serialConnection, logStream, ports, streams>>
          /\ Count({"closing"})' <= Count({"closing"})
          /\ ~Printed("Disconnected from serial device")'
          /\ ~Printed("Logging stopped")']_vars

\* C9 witness: Disconnect was chosen on a connected menu left over from a
\* lost connection, with logging still on: the step printed nothing but the
\* disconnected menu it went on to.
C9_Witness ==
  /\ serialConnection = NULL
  /\ logStream # NULL
  /\ out = <<Prompt("menuD")>>
  /\ Chain("menuD", "top") \in Waiting

\* C10: sendCommand leaves serialConnection, logStream, the ports and the
\* streams as they were, and what it writes is the command followed by
\* "\r\n", written to the port serialConnection holds.
SendStep ==
  \E c \in Waiting :
    \/ ChooseSend(c)
    \/ \E command \in Commands, wrote \in BOOLEAN : AnswerSend(c, command, wrote)
C10_SendKeepsSession ==
  [][SendStep
       => /\ UNCHANGED <<serialConnection, logStream, ports, streams>>
          /\ \A i \in 1..Len(out') :
               out'[i].kind = "write"
                 => /\ serialConnection # NULL
                    /\ out'[i].port = serialConnection
                    /\ \E command \in Commands :
                         out'[i].data = command \o Terminator]_vars

\* C10 witness: a write failed on a live connection and the session is
\* still Connected, back at the connected menu.
C10_Witness ==
  /\ Printed("Failed to send command")
  /\ Prompted("menuC")
  /\ serialConnection # NULL


\* C11: no sequence of operator choices, port open failures, 'error' events
\* and 'close' events ends the process with code 1; every chain that shows
\* the connected menu or one of its prompts runs inside the try of
\* connectToDevice, so the exception of a connected menu shown without a
\* connection is caught; and a step that reports a port error, a closed
\* connection or a caught exception leaves serialConnection null.
ErrorReported ==
  \/ Printed("Serial port error")
  \/ Printed("Serial connection closed")
  \/ Printed("Connection error")
C12_ExitCleansUp == exitCode = 0 => (LivePorts = {} /\ streams = {})

\* C13: at every point of every stream read in chunks of any lengths, the
\* lines emitted so far, each followed by "\r\n", followed by the bytes held
\* back, are exactly the bytes read so far; no emitted line and no held-back
\* remainder contains "\r\n".
RECURSIVE Joined(_)
Joined(lines) ==
  IF lines = <<>> THEN <<>>
  ELSE Head(lines) \o <<"\r", "\n">> \o Joined(Tail(lines))
HasCRLF(text) ==
  \E i \in 1..(Len(text) - 1) : text[i] = "\r" /\ text[i + 1] = "\n"
C13_FramerReassembles ==
  /\ Joined(framer.emitted) \o framer.held = SubSeq(framer.input, 1, framer.pos)
  /\ \A i \in 1..Len(framer.emitted) : ~HasCRLF(framer.emitted[i])
  /\ ~HasCRLF(framer.held)

\* C13 witness: the whole of a stream has been read, one line of text was
\* emitted and an unterminated remainder is held back.
C13_Witness ==
  /\ framer.pos = Len(framer.input)
  /\ framer.emitted = <<<<"A">>>>
  /\ framer.held = <<"A">>

\* C14: when the session gives up a port whose parser holds back bytes, the
\* port does not stay open, so those bytes are never completed into a line;
\* and the parser of a newly created port holds back nothing.
C14_BufferDiscardedOnClose ==
  [][/\ \A p \in 1..Len(ports) :
          (serialConnection = p /\ serialConnection' # p /\ buffer[p] # <<>>)
            => ports'[p] # "open"
     /\ Len(ports') > Len(ports) => buffer'[Len(ports')] = <<>>]_vars

\* C15: every line the 'data' handler prints carries "[", a timestamp and
\* "] " before its text; while a log stream is bound the line is followed by
\* exactly one entry, written to that stream, made of the printed text and a
\* newline; nothing else is ever written to a log, and nothing at all while
\* no stream is bound.
Entries == {i \in 1..Len(out) : out[i].kind = "entry"}
Lines == {i \in 1..Len(out) : out[i].kind = "line"}
C15_EveryLineLoggedOnce ==
  /\ \A i \in Lines :
       /\ Len(out[i].data) >= 3
       /\ out[i].data[1] = "[" /\ out[i].data[2] \in Times /\ out[i].data[3] = "] "
       /\ logStream # NULL
            => /\ i + 1 \in Entries
               /\ out[i + 1] = Entry(logStream, out[i].data \o <<"\n">>)
  /\ \A i \in Entries : logStream # NULL /\ i - 1 \in Lines
  /\ logStream = NULL => Entries = {}

\* C15 witness: a line arrived while logging was on and was printed and
\* written.
C15_Witness ==
  /\ logStream # NULL
  /\ Lines # {}
  /\ Entries # {}

\* C16: a toggleLogging start that fails, because the directory cannot be
\* created or because the file does not open, prints the failure and leaves
\* logStream null, serialConnection as it was and the process running; and
\* the failure of a log file to open never ends the process.
LogStartFails ==
  \E c \in Waiting : AnswerLog(c, FALSE, TRUE) \/ AnswerLog(c, TRUE, FALSE)
C16_FailedLogStartIsSurfaced ==
  [][/\ LogStartFails
          => /\ Printed("Failed to create log file")'
             /\ logStream' = NULL
             /\ UNCHANGED serialConnection
             /\ exitCode' = RUNNING
     /\ (\E s \in 1..MaxStreams : StreamError(s)) => exitCode' = RUNNING]_vars

\* C17: a pending connected-menu prompt implies serialConnection is not
\* null, and a pending disconnected-menu prompt implies it is null.
C17_MenuMatchesSession ==
  \A c \in Waiting :
    /\ c.pc = "menuC" => serialConnection # NULL
    /\ c.pc = "menuD" => serialConnection = NULL

\* C18: choosing Disconnect while serialConnection holds a port either
\* leaves the chain waiting for that port to acknowledge the close, or ends
\* with the port closing or closed; and when the disconnect completes,
\* serialConnection and logStream are null and the disconnected menu is
\* shown.
C18_DisconnectCompletes ==
  [][\A c \in Waiting :
       /\ (ChooseDisconnect(c) /\ serialConnection # NULL)
            => /\ ports'[serialConnection] \in {"closing", "closed"}
               /\ \/ ClosingChain(serialConnection, "menu", c.ctx) \in BagToSet(chains')
                  \/ /\ serialConnection' = NULL
                     /\ logStream' = NULL
                     /\ Prompted("menuD")'
       /\ (CloseDone(c) /\ c.then = "menu")
            => /\ ports'[c.port] = "closed"
               /\ serialConnection' = NULL
               /\ logStream' = NULL
               /\ Prompted("menuD")']_vars

\* C19: an 'error', 'close' or 'data' event of a port that is not the one
\* serialConnection holds leaves serialConnection, logStream and the open
\* streams as they were, starts no menu and writes no log entry.
StalePortEvent(p) ==
  /\ serialConnection # NULL
  /\ serialConnection # p
  /\ \/ PortError(p)
     \/ PortClose(p)
     \/ \E chunk \in LineChunks : PortData(p, chunk)
C19_OldPortEventsIgnored ==
  [][\A p \in 1..MaxPorts :
       StalePortEvent(p)
         => /\ UNCHANGED <<serialConnection, logStream, streams, chains>>
            /\ \A i \in 1..Len(out') : out'[i].kind # "entry"]_vars

====
